---- MODULE Spec2Model ----
(***************************************************************************)
(* The loopback GetObject / PutObject streams of                           *)
(* internal/plugin/loopback/testing_grpc_stream.go.                        *)
(*                                                                         *)
(* One behaviour is the life of one stream: newGetObjectStream() or        *)
(* newPutObjectStream() builds it (Init), and three goroutines use it: the *)
(* one that holds the server facade, the one that holds the client facade  *)
(* and the one that holds the stream value itself.  Every goroutine step   *)
(* that another goroutine can observe is one step of the model: taking the *)
(* mutex, close(chan), writing the closed flag, the hand-off on an         *)
(* unbuffered channel.  A send on a closed channel and a close of a closed *)
(* channel are the Go run-time panics; a panic ends the program.           *)
(***************************************************************************)
EXTENDS Naturals, Sequences, FiniteSets

\* ------------------------------------------------------------------ bounds

\* Calls the goroutines make on the stream, all together.
MaxCalls == 6

\* Requests the client sends in the upload scenario.
NumRequests == 2

\* Calls made on the stream when the interface stubs are callable too.
StubCalls == 5

\* ------------------------------------------------------------------ values

Server == "server"
Client == "client"
Owner  == "owner"
Threads == {Server, Client, Owner}

Free == "free"

\* The three channels, each with the closed flag that guards it.
Messages  == "messages"
Requests  == "requests"
Responses == "responses"
Halves == {Messages, Requests, Responses}

\* Arguments.  NilPtr is a typed nil pointer (*plgpb.GetObjectResponse)(nil),
\* UntypedNil the nil interface value, Other a value of any other type.
Payloads   == {"a", "b"}
Errors     == {"E"}
NilPtr     == "nilptr"
UntypedNil == "untyped_nil"
Other      == "other"
NoArg      == "noarg"
Nil        == "nil"

\* Returned errors.
ErrNilArg     == "parameter arg cannot be nil"
ErrClosed     == "stream is closed"
ErrInvalidArg == "invalid argument"
EOF           == "EOF"
Pending       == "pending"

\* What a call returns: (value, error).
Result(v, e) == [val |-> v, err |-> e]
\* make(metadata.MD) and context.Background().
EmptyMD == "empty metadata"
Background == "background context"

\* Arguments given to the SendMsg stubs of the client facades.
StubArgs == {"a", "E"}

Ok == Result(Nil, Nil)
NotReturned == Result(Pending, Pending)

\* ------------------------------------------------------------------ state

VARIABLES
    kind,        \* "get": a getObjectStream; "put": a putObjectStream
    chClosed,    \* per channel: close(chan) has been executed
    closedFlag,  \* streamClosed / clientClosed / serverClosed
    m,           \* the stream's mutex: its holder, or Free
    fault,       \* the run-time panic that ended the program, or "none"
    pc,          \* where each goroutine is in its current call
    op,          \* each goroutine's current (or last) call: name and argument
    ret,         \* what the last call returned
    calls,       \* calls the goroutines may still make
    pre,         \* the call's half was already closed when the call was made
    sendLog,     \* per channel: the arguments of the calls that reached their send
    recvLog,     \* per channel: what the receives returned (other than io.EOF), in order
    eofSeen,     \* per channel: some receive has returned io.EOF
    closes       \* per channel: number of close(chan) executed

stream == <<kind, chClosed, closedFlag, m, fault>>
locals == <<pc, op, ret, calls, pre>>
logs   == <<sendLog, recvLog, eofSeen, closes>>
vars   == <<kind, chClosed, closedFlag, m, fault, pc, op, ret, calls, pre,
            sendLog, recvLog, eofSeen, closes>>

streamClosed == closedFlag[Messages]
clientClosed == closedFlag[Requests]
serverClosed == closedFlag[Responses]

\* ------------------------------------------------------------------ messages

\* &getObjectStreamResponse{msg: resp}, &putObjectStreamRequest{msg: req}, ...
PayloadMsg(p) == [msg |-> IF p = NilPtr THEN Nil ELSE p, err |-> Nil]
\* &getObjectStreamResponse{err: msg}, &putObjectStreamResponse{err: msg}
ErrorMsg(e) == [msg |-> Nil, err |-> e]

\* The message a sending call hands to the channel.
MsgOf(o) == IF o.arg \in Errors THEN ErrorMsg(o.arg) ELSE PayloadMsg(o.arg)

\* Recv ending in "return nil, resp.err".
RecvResult_DropMsg(resp, ok) == IF ~ok THEN Result(Nil, EOF) ELSE Result(Nil, resp.err)

\* Recv without its "if !ok { return nil, io.EOF }".
RecvResult_NoEOF(resp, ok) == Result(resp.msg, resp.err)

\* resp, ok := <-ch ; if !ok { return nil, io.EOF } ; return resp.msg, resp.err
RecvResult(resp, ok) == IF ~ok THEN Result(Nil, EOF) ELSE Result(resp.msg, resp.err)

\* ------------------------------------------------------------------ goroutines

Running == fault = "none"

At(t, name, label) == Running /\ pc[t] = label /\ op[t].name = name

\* Goroutine t moves to label l; r is what it has returned when l = "idle".
Step(t, l, r) ==
    /\ pc' = [pc EXCEPT ![t] = l]
    /\ ret' = [ret EXCEPT ![t] = r]
    /\ UNCHANGED <<op, calls, pre>>

Return(t, r) == Step(t, "idle", r)
Goto(t, l)   == Step(t, l, ret[t])

\* Goroutine t calls name(arg), a call that acts on half h, and continues at l
\* (at "idle", having returned r, when the call returns at once).
Call(t, name, arg, h, l, r) ==
    /\ Running
    /\ pc[t] = "idle"
    /\ calls > 0
    /\ pc' = [pc EXCEPT ![t] = l]
    /\ op' = [op EXCEPT ![t] = [name |-> name, arg |-> arg]]
    /\ ret' = [ret EXCEPT ![t] = r]
    /\ calls' = calls - 1
    /\ pre' = [pre EXCEPT ![t] = closedFlag[h] \/ chClosed[h]]

\* ------------------------------------------------------------------ the guard

\* s.m.Lock(); defer s.m.Unlock(); return s.closed
\* The caller reads the flag of half h under the mutex; it goes on at lc
\* (returning rc) when the flag is set and at lo (returning ro) otherwise.
IsClosedCheck(t, h, lc, rc, lo, ro) ==
    /\ m = Free
    /\ IF closedFlag[h] THEN Step(t, lc, rc) ELSE Step(t, lo, ro)
    /\ UNCHANGED <<stream, closes, eofSeen, recvLog>>

\* Close without its "if s.closed { return }".
GuardLock_NoCheck(t, h, l, r) ==
    /\ m = Free
    /\ Goto(t, "cls") /\ m' = t
    /\ UNCHANGED <<kind, chClosed, closedFlag, fault, logs>>

\* s.m.Lock(); if s.closed { return }: the goroutine at "lock" takes the mutex;
\* when the flag is set it releases it and goes on at l (returning r), else it
\* keeps the mutex and goes on to close the channel.
GuardLock(t, h, l, r) ==
    /\ m = Free
    /\ IF closedFlag[h]
         THEN Step(t, l, r) /\ UNCHANGED m
         ELSE Goto(t, "cls") /\ m' = t
    /\ UNCHANGED <<kind, chClosed, closedFlag, fault, logs>>

\* Close closing every channel of the stream instead of its own.
GuardCloseChan_All(t, h) ==
    /\ m = t
    /\ IF chClosed[h]
         THEN /\ fault' = "close of closed channel"
              /\ pc' = [pc EXCEPT ![t] = "panic"]
              /\ UNCHANGED <<chClosed, closes, op, ret, calls, pre>>
         ELSE /\ chClosed' = [x \in Halves |-> TRUE]
              /\ closes' = [closes EXCEPT ![h] = @ + 1]
              /\ Goto(t, "set")
              /\ UNCHANGED fault
    /\ UNCHANGED <<kind, closedFlag, m, sendLog, recvLog, eofSeen>>

\* close(s.messages): closing a closed channel panics.
GuardCloseChan(t, h) ==
    /\ m = t
    /\ IF chClosed[h]
         THEN /\ fault' = "close of closed channel"
              /\ pc' = [pc EXCEPT ![t] = "panic"]
              /\ UNCHANGED <<chClosed, closes, op, ret, calls, pre>>
         ELSE /\ chClosed' = [chClosed EXCEPT ![h] = TRUE]
              /\ closes' = [closes EXCEPT ![h] = @ + 1]
              /\ Goto(t, "set")
              /\ UNCHANGED fault
    /\ UNCHANGED <<kind, closedFlag, m, sendLog, recvLog, eofSeen>>

\* Close setting its own flag and clearing the flags of the other halves.
GuardSetFlag_Clobber(t, h, l, r) ==
    /\ m = t
    /\ closedFlag' = [x \in Halves |-> x = h]
    /\ m' = Free
    /\ Step(t, l, r)
    /\ UNCHANGED <<kind, chClosed, fault, logs>>

\* Close without its "s.closed = true".
GuardSetFlag_NoFlag(t, h, l, r) ==
    /\ m = t
    /\ m' = Free
    /\ Step(t, l, r)
    /\ UNCHANGED <<kind, chClosed, closedFlag, fault, logs>>

\* s.closed = true, and the deferred s.m.Unlock().
GuardSetFlag(t, h, l, r) ==
    /\ m = t
    /\ closedFlag' = [closedFlag EXCEPT ![h] = TRUE]
    /\ m' = Free
    /\ Step(t, l, r)
    /\ UNCHANGED <<kind, chClosed, fault, logs>>

\* The body of Close / CloseClient / CloseServer on half h, run by the
\* goroutine whose call is name; afterwards it goes on at l (returning r).
GuardClose(t, name, h, l, r) ==
    \/ At(t, name, "lock") /\ GuardLock(t, h, l, r)
    \/ At(t, name, "cls") /\ GuardCloseChan(t, h)
    \/ At(t, name, "set") /\ GuardSetFlag(t, h, l, r)

\* ------------------------------------------------------------------ channels

\* The channel a goroutine blocked in a receive is receiving from.
RecvChan(t) ==
    IF kind = "get" THEN Messages
    ELSE IF op[t].name = "CloseAndRecv" THEN Responses ELSE Requests

Receiving(t, h) ==
    /\ pc[t] = "rcv"
    /\ op[t].name \in {"Recv", "CloseAndRecv"}
    /\ RecvChan(t) = h

\* ch <- msg on a channel made with a buffer: the sender goes on whether or
\* not a receiver waits.
ChanSend_Buffered(s, h, l, rs) ==
    IF chClosed[h]
      THEN /\ fault' = "send on closed channel"
           /\ pc' = [pc EXCEPT ![s] = "panic"]
           /\ UNCHANGED <<kind, chClosed, closedFlag, m, op, ret, calls, pre, logs>>
      ELSE /\ pc' = [pc EXCEPT ![s] = l]
           /\ ret' = [ret EXCEPT ![s] = rs]
           /\ UNCHANGED <<stream, op, calls, pre, logs>>

\* ch <- msg on an unbuffered channel, by the goroutine s at "snd": it panics
\* when the channel is closed, and otherwise completes with a receiver r that
\* is blocked in <-ch, which returns the message.  The sender goes on at l
\* (returning rs).
ChanSend(s, h, l, rs) ==
    IF chClosed[h]
      THEN /\ fault' = "send on closed channel"
           /\ pc' = [pc EXCEPT ![s] = "panic"]
           /\ UNCHANGED <<kind, chClosed, closedFlag, m, op, ret, calls, pre, logs>>
      ELSE \E r \in Threads \ {s} :
           /\ Receiving(r, h)
           /\ pc' = [pc EXCEPT ![r] = "idle", ![s] = l]
           /\ ret' = [ret EXCEPT ![r] = RecvResult(MsgOf(op[s]), TRUE), ![s] = rs]
           /\ recvLog' = [recvLog EXCEPT ![h] = Append(@, RecvResult(MsgOf(op[s]), TRUE))]
           /\ UNCHANGED <<stream, op, calls, pre, sendLog, eofSeen, closes>>

\* <-ch on a closed channel, by the goroutine r at "rcv": ok is false.
ChanRecvClosed(r, h) ==
    /\ chClosed[h]
    /\ Return(r, RecvResult(ErrorMsg(Nil), FALSE))
    /\ eofSeen' = [eofSeen EXCEPT ![h] = TRUE]
    /\ UNCHANGED <<stream, sendLog, recvLog, closes>>

\* A sending call without its "if s.isStreamClosed() { return ... }".
SendCheck_NoCheck(t, h) ==
    /\ m = Free
    /\ Goto(t, "snd")
    /\ sendLog' = [sendLog EXCEPT ![h] = Append(@, op[t].arg)]
    /\ UNCHANGED <<stream, closes, eofSeen, recvLog>>

\* A sending call that takes the mutex for its closed check and keeps it
\* during the send.
SendCheck_HoldMutex(t, h) ==
    /\ m = Free
    /\ IF closedFlag[h]
         THEN Step(t, "idle", Result(Nil, ErrClosed)) /\ UNCHANGED <<m, sendLog>>
         ELSE /\ Goto(t, "snd") /\ m' = t
              /\ sendLog' = [sendLog EXCEPT ![h] = Append(@, op[t].arg)]
    /\ UNCHANGED <<kind, chClosed, closedFlag, fault, closes, eofSeen, recvLog>>

\* The closed check of a sending call on half h: "stream is closed", or on to
\* the send statement.
SendCheck(t, h) ==
    /\ IsClosedCheck(t, h, "idle", Result(Nil, ErrClosed), "snd", ret[t])
    /\ sendLog' = IF closedFlag[h] THEN sendLog
                  ELSE [sendLog EXCEPT ![h] = Append(@, op[t].arg)]

Bool(b) == IF b THEN "true" ELSE "false"

\* ------------------------------------------------------------------ getObjectStream

\* func (s *getObjectStream) IsStreamClosed() bool
getObjectStream_IsStreamClosed(t) ==
    /\ kind = "get" /\ t = Owner
    /\ m = Free
    /\ Call(t, "IsStreamClosed", NoArg, Messages, "idle", Result(Bool(streamClosed), Nil))
    /\ UNCHANGED <<stream, logs>>

\* func (s *getObjectStream) Close()
getObjectStream_Close(t) ==
    /\ kind = "get" /\ t = Owner
    /\ \/ Call(t, "Close", NoArg, Messages, "lock", NotReturned) /\ UNCHANGED <<stream, logs>>
       \/ GuardClose(t, "Close", Messages, "idle", Ok)

\* func (c *getObjectClient) Recv() (*plgpb.GetObjectResponse, error)
getObjectClient_Recv(t) ==
    /\ kind = "get" /\ t = Client
    /\ \/ Call(t, "Recv", NoArg, Messages, "rcv", NotReturned) /\ UNCHANGED <<stream, logs>>
       \/ At(t, "Recv", "rcv") /\ ChanRecvClosed(t, Messages)

\* func (c *getObjectClient) CloseSend() error
getObjectClient_CloseSend(t) ==
    /\ kind = "get" /\ t = Client
    /\ \/ Call(t, "CloseSend", NoArg, Messages, "chk", NotReturned) /\ UNCHANGED <<stream, logs>>
       \/ /\ At(t, "CloseSend", "chk")
          /\ IsClosedCheck(t, Messages, "idle", Result(Nil, ErrClosed), "lock", ret[t])
          /\ UNCHANGED sendLog
       \/ GuardClose(t, "CloseSend", Messages, "idle", Ok)

\* Send without its "if resp == nil { return ... }".
getObjectServer_Send_NoNilCheck(t) ==
    /\ kind = "get" /\ t = Server
    /\ \/ \E resp \in Payloads \cup {NilPtr} :
            /\ Call(t, "Send", resp, Messages, "chk", NotReturned)
            /\ UNCHANGED <<stream, logs>>
       \/ At(t, "Send", "chk") /\ SendCheck(t, Messages)
       \/ At(t, "Send", "snd") /\ ChanSend(t, Messages, "idle", Ok)

\* func (s *getObjectServer) Send(resp *plgpb.GetObjectResponse) error
getObjectServer_Send(t) ==
    /\ kind = "get" /\ t = Server
    /\ \/ \E resp \in Payloads \cup {NilPtr} :
            /\ IF resp = NilPtr
                 THEN Call(t, "Send", resp, Messages, "idle", Result(Nil, ErrNilArg))
                 ELSE Call(t, "Send", resp, Messages, "chk", NotReturned)
            /\ UNCHANGED <<stream, logs>>
       \/ At(t, "Send", "chk") /\ SendCheck(t, Messages)
       \/ At(t, "Send", "snd") /\ ChanSend(t, Messages, "idle", Ok)

\* SendMsg whose error case lacks the "defer s.closeStream()".
getObjectServer_SendMsg_NoClose(t) ==
    /\ kind = "get" /\ t = Server
    /\ \/ \E msg \in Payloads \cup {NilPtr} \cup Errors \cup {UntypedNil, Other} :
            /\ IF msg \in Payloads \cup {NilPtr} \cup Errors
                 THEN Call(t, "SendMsg", msg, Messages, "chk", NotReturned)
                 ELSE Call(t, "SendMsg", msg, Messages, "idle", Result(Nil, ErrInvalidArg))
            /\ UNCHANGED <<stream, logs>>
       \/ At(t, "SendMsg", "chk") /\ SendCheck(t, Messages)
       \/ At(t, "SendMsg", "snd") /\ ChanSend(t, Messages, "idle", Ok)

\* func (s *getObjectServer) SendMsg(m interface{}) error
getObjectServer_SendMsg(t) ==
    /\ kind = "get" /\ t = Server
    /\ \/ \E msg \in Payloads \cup {NilPtr} \cup Errors \cup {UntypedNil, Other} :
            /\ IF msg \in Payloads \cup {NilPtr} \cup Errors
                 THEN Call(t, "SendMsg", msg, Messages, "chk", NotReturned)
                 ELSE Call(t, "SendMsg", msg, Messages, "idle", Result(Nil, ErrInvalidArg))
            /\ UNCHANGED <<stream, logs>>
       \/ At(t, "SendMsg", "chk") /\ SendCheck(t, Messages)
       \/ /\ At(t, "SendMsg", "snd")
          /\ IF op[t].arg \in Errors
               THEN ChanSend(t, Messages, "lock", ret[t])
               ELSE ChanSend(t, Messages, "idle", Ok)
       \/ GuardClose(t, "SendMsg", Messages, "idle", Ok)

\* func newGetObjectStream() *getObjectStream
newGetObjectStream ==
    /\ kind = "get"
    /\ chClosed = [h \in Halves |-> FALSE]
    /\ closedFlag = [h \in Halves |-> FALSE]
    /\ m = Free

\* ------------------------------------------------------------------ putObjectStream

\* func (s *putObjectStream) CloseClient()
putObjectStream_CloseClient(t) ==
    /\ kind = "put" /\ t = Owner
    /\ \/ Call(t, "CloseClient", NoArg, Requests, "lock", NotReturned) /\ UNCHANGED <<stream, logs>>
       \/ GuardClose(t, "CloseClient", Requests, "idle", Ok)

\* func (s *putObjectStream) IsClientClosed() bool
putObjectStream_IsClientClosed(t) ==
    /\ kind = "put" /\ t = Owner
    /\ m = Free
    /\ Call(t, "IsClientClosed", NoArg, Requests, "idle", Result(Bool(clientClosed), Nil))
    /\ UNCHANGED <<stream, logs>>

\* func (s *putObjectStream) CloseServer()
putObjectStream_CloseServer(t) ==
    /\ kind = "put" /\ t = Owner
    /\ \/ Call(t, "CloseServer", NoArg, Responses, "lock", NotReturned) /\ UNCHANGED <<stream, logs>>
       \/ GuardClose(t, "CloseServer", Responses, "idle", Ok)

\* func (s *putObjectStream) IsServerClosed() bool
putObjectStream_IsServerClosed(t) ==
    /\ kind = "put" /\ t = Owner
    /\ m = Free
    /\ Call(t, "IsServerClosed", NoArg, Responses, "idle", Result(Bool(serverClosed), Nil))
    /\ UNCHANGED <<stream, logs>>

\* Send with the closed check before the nil check.
putObjectClient_Send_ClosedFirst(t) ==
    /\ kind = "put" /\ t = Client
    /\ \/ \E req \in Payloads \cup {NilPtr} :
            /\ Call(t, "Send", req, Requests, "chk", NotReturned)
            /\ UNCHANGED <<stream, logs>>
       \/ /\ At(t, "Send", "chk")
          /\ IF op[t].arg = NilPtr
               THEN /\ IsClosedCheck(t, Requests, "idle", Result(Nil, ErrClosed),
                                     "idle", Result(Nil, ErrNilArg))
                    /\ UNCHANGED sendLog
               ELSE SendCheck(t, Requests)
       \/ At(t, "Send", "snd") /\ ChanSend(t, Requests, "idle", Ok)

\* func (c *putObjectClient) Send(req *plgpb.PutObjectRequest) error
putObjectClient_Send(t) ==
    /\ kind = "put" /\ t = Client
    /\ \/ \E req \in Payloads \cup {NilPtr} :
            /\ IF req = NilPtr
                 THEN Call(t, "Send", req, Requests, "idle", Result(Nil, ErrNilArg))
                 ELSE Call(t, "Send", req, Requests, "chk", NotReturned)
            /\ UNCHANGED <<stream, logs>>
       \/ At(t, "Send", "chk") /\ SendCheck(t, Requests)
       \/ At(t, "Send", "snd") /\ ChanSend(t, Requests, "idle", Ok)

\* CloseAndRecv without its "c.closeStream()".
putObjectClient_CloseAndRecv_NoClose(t) ==
    /\ kind = "put" /\ t = Client
    /\ \/ Call(t, "CloseAndRecv", NoArg, Requests, "rcv", NotReturned) /\ UNCHANGED <<stream, logs>>
       \/ At(t, "CloseAndRecv", "rcv") /\ ChanRecvClosed(t, Responses)

\* func (c *putObjectClient) CloseAndRecv() (*plgpb.PutObjectResponse, error)
putObjectClient_CloseAndRecv(t) ==
    /\ kind = "put" /\ t = Client
    /\ \/ Call(t, "CloseAndRecv", NoArg, Requests, "lock", NotReturned) /\ UNCHANGED <<stream, logs>>
       \/ GuardClose(t, "CloseAndRecv", Requests, "rcv", ret[t])
       \/ At(t, "CloseAndRecv", "rcv") /\ ChanRecvClosed(t, Responses)

\* CloseSend returning nil without its "c.closeStream()".
putObjectClient_CloseSend_NoClose(t) ==
    /\ kind = "put" /\ t = Client
    /\ \/ Call(t, "CloseSend", NoArg, Requests, "chk", NotReturned) /\ UNCHANGED <<stream, logs>>
       \/ /\ At(t, "CloseSend", "chk")
          /\ IsClosedCheck(t, Requests, "idle", Result(Nil, ErrClosed), "idle", Ok)
          /\ UNCHANGED sendLog

\* func (c *putObjectClient) CloseSend() error
putObjectClient_CloseSend(t) ==
    /\ kind = "put" /\ t = Client
    /\ \/ Call(t, "CloseSend", NoArg, Requests, "chk", NotReturned) /\ UNCHANGED <<stream, logs>>
       \/ /\ At(t, "CloseSend", "chk")
          /\ IsClosedCheck(t, Requests, "idle", Result(Nil, ErrClosed), "lock", ret[t])
          /\ UNCHANGED sendLog
       \/ GuardClose(t, "CloseSend", Requests, "idle", Ok)

\* SendAndClose without its "s.closeStream()".
putObjectServer_SendAndClose_NoClose(t) ==
    /\ kind = "put" /\ t = Server
    /\ \/ \E resp \in Payloads \cup {NilPtr} :
            /\ IF resp = NilPtr
                 THEN Call(t, "SendAndClose", resp, Responses, "idle", Result(Nil, ErrNilArg))
                 ELSE Call(t, "SendAndClose", resp, Responses, "chk", NotReturned)
            /\ UNCHANGED <<stream, logs>>
       \/ At(t, "SendAndClose", "chk") /\ SendCheck(t, Responses)
       \/ At(t, "SendAndClose", "snd") /\ ChanSend(t, Responses, "idle", Ok)

\* func (s *putObjectServer) SendAndClose(resp *plgpb.PutObjectResponse) error
putObjectServer_SendAndClose(t) ==
    /\ kind = "put" /\ t = Server
    /\ \/ \E resp \in Payloads \cup {NilPtr} :
            /\ IF resp = NilPtr
                 THEN Call(t, "SendAndClose", resp, Responses, "idle", Result(Nil, ErrNilArg))
                 ELSE Call(t, "SendAndClose", resp, Responses, "chk", NotReturned)
            /\ UNCHANGED <<stream, logs>>
       \/ At(t, "SendAndClose", "chk") /\ SendCheck(t, Responses)
       \/ At(t, "SendAndClose", "snd") /\ ChanSend(t, Responses, "lock", ret[t])
       \/ GuardClose(t, "SendAndClose", Responses, "idle", Ok)

\* func (s *putObjectServer) Recv() (*plgpb.PutObjectRequest, error)
putObjectServer_Recv(t) ==
    /\ kind = "put" /\ t = Server
    /\ \/ Call(t, "Recv", NoArg, Requests, "rcv", NotReturned) /\ UNCHANGED <<stream, logs>>
       \/ At(t, "Recv", "rcv") /\ ChanRecvClosed(t, Requests)

\* SendMsg whose error case lacks the "defer s.closeStream()".
putObjectServer_SendMsg_NoClose(t) ==
    /\ kind = "put" /\ t = Server
    /\ \/ \E msg \in Payloads \cup {NilPtr} \cup Errors \cup {UntypedNil, Other} :
            /\ IF msg \in Payloads \cup {NilPtr} \cup Errors
                 THEN Call(t, "SendMsg", msg, Responses, "chk", NotReturned)
                 ELSE Call(t, "SendMsg", msg, Responses, "idle", Result(Nil, ErrInvalidArg))
            /\ UNCHANGED <<stream, logs>>
       \/ At(t, "SendMsg", "chk") /\ SendCheck(t, Responses)
       \/ At(t, "SendMsg", "snd") /\ ChanSend(t, Responses, "idle", Ok)

\* func (s *putObjectServer) SendMsg(m interface{}) error
putObjectServer_SendMsg(t) ==
    /\ kind = "put" /\ t = Server
    /\ \/ \E msg \in Payloads \cup {NilPtr} \cup Errors \cup {UntypedNil, Other} :
            /\ IF msg \in Payloads \cup {NilPtr} \cup Errors
                 THEN Call(t, "SendMsg", msg, Responses, "chk", NotReturned)
                 ELSE Call(t, "SendMsg", msg, Responses, "idle", Result(Nil, ErrInvalidArg))
            /\ UNCHANGED <<stream, logs>>
       \/ At(t, "SendMsg", "chk") /\ SendCheck(t, Responses)
       \/ /\ At(t, "SendMsg", "snd")
          /\ IF op[t].arg \in Errors
               THEN ChanSend(t, Responses, "lock", ret[t])
               ELSE ChanSend(t, Responses, "idle", Ok)
       \/ GuardClose(t, "SendMsg", Responses, "idle", Ok)

\* func newPutObjectStream() *putObjectStream
newPutObjectStream ==
    /\ kind = "put"
    /\ chClosed = [h \in Halves |-> FALSE]
    /\ closedFlag = [h \in Halves |-> FALSE]
    /\ m = Free

\* ------------------------------------------------------------------ interface stubs

\* A method that touches nothing of the stream and returns r at once.
Stub(t, name, arg, r) ==
    /\ Call(t, name, arg, IF kind = "get" THEN Messages
                          ELSE IF t = Client THEN Requests ELSE Responses, "idle", r)
    /\ UNCHANGED <<stream, logs>>

\* Header consulting the guard: it waits for the mutex and fails on a closed
\* stream.
getObjectClient_Header_Guarded(t) ==
    /\ kind = "get" /\ t = Client
    /\ m = Free
    /\ Stub(t, "Header", NoArg,
            IF streamClosed THEN Result(Nil, ErrClosed) ELSE Result(EmptyMD, Nil))

\* func (c *getObjectClient) Header() (metadata.MD, error)
getObjectClient_Header(t) == kind = "get" /\ t = Client /\ Stub(t, "Header", NoArg, Result(EmptyMD, Nil))

\* func (c *getObjectClient) Trailer() metadata.MD
getObjectClient_Trailer(t) == kind = "get" /\ t = Client /\ Stub(t, "Trailer", NoArg, Result(EmptyMD, Nil))

\* func (c *getObjectClient) Context() context.Context
getObjectClient_Context(t) == kind = "get" /\ t = Client /\ Stub(t, "Context", NoArg, Result(Background, Nil))

\* func (c *getObjectClient) SendMsg(m interface{}) error
getObjectClient_SendMsg(t) ==
    kind = "get" /\ t = Client /\ \E msg \in StubArgs : Stub(t, "SendMsg", msg, Ok)

\* func (c *getObjectClient) RecvMsg(m interface{}) error
getObjectClient_RecvMsg(t) == kind = "get" /\ t = Client /\ Stub(t, "RecvMsg", NoArg, Ok)

\* func (s *getObjectServer) SetHeader(metadata.MD) error
getObjectServer_SetHeader(t) == kind = "get" /\ t = Server /\ Stub(t, "SetHeader", NoArg, Ok)

\* func (s *getObjectServer) SendHeader(metadata.MD) error
getObjectServer_SendHeader(t) == kind = "get" /\ t = Server /\ Stub(t, "SendHeader", NoArg, Ok)

\* func (s *getObjectServer) SetTrailer(metadata.MD)
getObjectServer_SetTrailer(t) == kind = "get" /\ t = Server /\ Stub(t, "SetTrailer", NoArg, Ok)

\* func (s *getObjectServer) Context() context.Context
getObjectServer_Context(t) == kind = "get" /\ t = Server /\ Stub(t, "Context", NoArg, Result(Background, Nil))

\* func (s *getObjectServer) RecvMsg(m interface{}) error
getObjectServer_RecvMsg(t) == kind = "get" /\ t = Server /\ Stub(t, "RecvMsg", NoArg, Ok)

\* func (c *putObjectClient) Header() (metadata.MD, error)
putObjectClient_Header(t) == kind = "put" /\ t = Client /\ Stub(t, "Header", NoArg, Result(EmptyMD, Nil))

\* func (c *putObjectClient) Trailer() metadata.MD
putObjectClient_Trailer(t) == kind = "put" /\ t = Client /\ Stub(t, "Trailer", NoArg, Result(EmptyMD, Nil))

\* func (c *putObjectClient) Context() context.Context
putObjectClient_Context(t) == kind = "put" /\ t = Client /\ Stub(t, "Context", NoArg, Result(Background, Nil))

\* A client SendMsg that sends its argument on the request half, as the
\* server's SendMsg does on the response half.
putObjectClient_SendMsg_Sends(t) ==
    /\ kind = "put" /\ t = Client
    /\ \/ \E msg \in StubArgs :
            /\ Call(t, "SendMsg", msg, Requests, "chk", NotReturned)
            /\ UNCHANGED <<stream, logs>>
       \/ At(t, "SendMsg", "chk") /\ SendCheck(t, Requests)
       \/ At(t, "SendMsg", "snd") /\ ChanSend(t, Requests, "idle", Ok)

\* func (c *putObjectClient) SendMsg(m interface{}) error
putObjectClient_SendMsg(t) ==
    kind = "put" /\ t = Client /\ \E msg \in StubArgs : Stub(t, "SendMsg", msg, Ok)

\* func (c *putObjectClient) RecvMsg(m interface{}) error
putObjectClient_RecvMsg(t) == kind = "put" /\ t = Client /\ Stub(t, "RecvMsg", NoArg, Ok)

\* func (s *putObjectServer) SetHeader(metadata.MD) error
putObjectServer_SetHeader(t) == kind = "put" /\ t = Server /\ Stub(t, "SetHeader", NoArg, Ok)

\* func (s *putObjectServer) SendHeader(metadata.MD) error
putObjectServer_SendHeader(t) == kind = "put" /\ t = Server /\ Stub(t, "SendHeader", NoArg, Ok)

\* func (s *putObjectServer) SetTrailer(metadata.MD)
putObjectServer_SetTrailer(t) == kind = "put" /\ t = Server /\ Stub(t, "SetTrailer", NoArg, Ok)

\* func (s *putObjectServer) Context() context.Context
putObjectServer_Context(t) == kind = "put" /\ t = Server /\ Stub(t, "Context", NoArg, Result(Background, Nil))

\* func (s *putObjectServer) RecvMsg(m interface{}) error
putObjectServer_RecvMsg(t) == kind = "put" /\ t = Server /\ Stub(t, "RecvMsg", NoArg, Ok)

\* The interface-conformance stubs of the four facades.
Stubs(t) ==
    \/ getObjectClient_Header(t)
    \/ getObjectClient_Trailer(t)
    \/ getObjectClient_Context(t)
    \/ getObjectClient_SendMsg(t)
    \/ getObjectClient_RecvMsg(t)
    \/ getObjectServer_SetHeader(t)
    \/ getObjectServer_SendHeader(t)
    \/ getObjectServer_SetTrailer(t)
    \/ getObjectServer_Context(t)
    \/ getObjectServer_RecvMsg(t)
    \/ putObjectClient_Header(t)
    \/ putObjectClient_Trailer(t)
    \/ putObjectClient_Context(t)
    \/ putObjectClient_SendMsg(t)
    \/ putObjectClient_RecvMsg(t)
    \/ putObjectServer_SetHeader(t)
    \/ putObjectServer_SendHeader(t)
    \/ putObjectServer_SetTrailer(t)
    \/ putObjectServer_Context(t)
    \/ putObjectServer_RecvMsg(t)

\* ------------------------------------------------------------------ specification

\* No goroutine has called anything yet; n calls may be made.
Fresh(n) ==
    /\ fault = "none"
    /\ pc = [t \in Threads |-> "idle"]
    /\ op = [t \in Threads |-> [name |-> "none", arg |-> NoArg]]
    /\ ret = [t \in Threads |-> NotReturned]
    /\ calls = n
    /\ pre = [t \in Threads |-> FALSE]
    /\ sendLog = [h \in Halves |-> <<>>]
    /\ recvLog = [h \in Halves |-> <<>>]
    /\ eofSeen = [h \in Halves |-> FALSE]
    /\ closes = [h \in Halves |-> 0]

Init ==
    /\ newGetObjectStream \/ newPutObjectStream
    /\ Fresh(MaxCalls)

Next ==
    \E t \in Threads :
        \/ getObjectStream_IsStreamClosed(t)
        \/ getObjectStream_Close(t)
        \/ getObjectClient_Recv(t)
        \/ getObjectClient_CloseSend(t)
        \/ getObjectServer_Send(t)
        \/ getObjectServer_SendMsg(t)
        \/ putObjectStream_CloseClient(t)
        \/ putObjectStream_IsClientClosed(t)
        \/ putObjectStream_CloseServer(t)
        \/ putObjectStream_IsServerClosed(t)
        \/ putObjectClient_Send(t)
        \/ putObjectClient_CloseAndRecv(t)
        \/ putObjectClient_CloseSend(t)
        \/ putObjectServer_SendAndClose(t)
        \/ putObjectServer_Recv(t)
        \/ putObjectServer_SendMsg(t)

Spec == Init /\ [][Next]_vars

\* A goroutine that is inside a call keeps running: the Go scheduler lets every
\* runnable goroutine run.  Whether a goroutine makes another call is up to
\* the caller, and no fairness is assumed of it.
Proceed(t) ==
    /\ pc[t] # "idle"
    /\ \/ getObjectStream_Close(t)
       \/ getObjectClient_Recv(t)
       \/ getObjectClient_CloseSend(t)
       \/ getObjectServer_Send(t)
       \/ getObjectServer_SendMsg(t)
       \/ putObjectStream_CloseClient(t)
       \/ putObjectStream_CloseServer(t)
       \/ putObjectClient_Send(t)
       \/ putObjectClient_CloseAndRecv(t)
       \/ putObjectClient_CloseSend(t)
       \/ putObjectServer_SendAndClose(t)
       \/ putObjectServer_Recv(t)
       \/ putObjectServer_SendMsg(t)

FairSpec == Init /\ [][Next]_vars /\ \A t \in Threads : WF_vars(Proceed(t))

\* The stream with the interface stubs callable as well.  The stubs read and
\* write nothing of the stream, so Spec leaves them out; here every method of
\* the four facades can be called, StubCalls times in all.
StubInit ==
    /\ newGetObjectStream \/ newPutObjectStream
    /\ Fresh(StubCalls)

StubNext == Next \/ \E t \in Threads : Stubs(t)

StubSpec == StubInit /\ [][StubNext]_vars

\* ------------------------------------------------------------------ the upload scenario

\* Scenario C: on a fresh upload stream the client goroutine sends NumRequests
\* requests and then calls CloseAndRecv; the server goroutine calls Recv until
\* it returns io.EOF and then SendAndClose with a result.  WhenCalling(t, P)
\* lets goroutine t make its next call only when P holds.
WhenCalling(t, P) == pc[t] = "idle" => P

UploadClient ==
    \/ /\ putObjectClient_Send(Client)
       /\ WhenCalling(Client, Len(sendLog[Requests]) < NumRequests)
       /\ op'[Client].arg \in Payloads
    \/ /\ putObjectClient_CloseAndRecv(Client)
       /\ WhenCalling(Client, /\ Len(sendLog[Requests]) = NumRequests
                              /\ op[Client].name # "CloseAndRecv")

UploadServer ==
    \/ /\ putObjectServer_Recv(Server)
       /\ WhenCalling(Server, ~eofSeen[Requests])
    \/ /\ putObjectServer_SendAndClose(Server)
       /\ WhenCalling(Server, eofSeen[Requests] /\ op[Server].name = "Recv")
       /\ op'[Server].arg \in Payloads

UploadInit == newPutObjectStream /\ Fresh(2 * NumRequests + 3)

UploadNext == UploadClient \/ UploadServer

\* Both goroutines are scheduled as long as they can run.
UploadSpec ==
    UploadInit /\ [][UploadNext]_vars /\ WF_vars(UploadClient) /\ WF_vars(UploadServer)

\* ------------------------------------------------------------------ shared by the properties

\* The halves of the stream that was built.
HalvesOf == IF kind = "get" THEN {Messages} ELSE {Requests, Responses}

\* The half a call of goroutine t checks, sends on or closes.
HalfOf(t) ==
    IF kind = "get" THEN Messages
    ELSE IF op[t].name \in {"CloseClient", "IsClientClosed"} THEN Requests
    ELSE IF op[t].name \in {"CloseServer", "IsServerClosed"} THEN Responses
    ELSE IF t = Client THEN Requests ELSE Responses

Returned(t) == pc[t] = "idle" /\ op[t].name # "none"

InvalidArgument(e) == e \in {ErrNilArg, ErrInvalidArg}

\* Goroutine t has returned from a call that ran Close / CloseClient /
\* CloseServer on the half HalfOf(t).
RanClose(t) ==
    /\ Returned(t)
    /\ \/ op[t].name \in {"Close", "CloseClient", "CloseServer", "CloseAndRecv"}
       \/ op[t].name \in {"CloseSend", "SendAndClose"} /\ ret[t] = Ok
       \/ op[t].name = "SendMsg" /\ op[t].arg \in Errors /\ ret[t] = Ok

IsClosedQueries == {"IsStreamClosed", "IsClientClosed", "IsServerClosed"}

\* ------------------------------------------------------------------ C1

\* C1: no send is ever performed on a channel that has been closed: a sending
\* call whose channel the other endpoint closes gets "stream is closed", never
\* the send-on-closed-channel panic.
C1_NoSendOnClosedChannel == fault # "send on closed channel"

\* ------------------------------------------------------------------ C2

\* C2: however many calls run Close / CloseClient / CloseServer on one guard, and
\* from whichever goroutines at once, the channel is closed exactly once (no
\* close-of-closed-channel panic), a closing call waits for nothing but the
\* mutex, whose holder is never blocked, and once a closing call has returned
\* the flag is set and every later IsClosed query answers true.
C2_CloseExactlyOnce ==
    /\ fault # "close of closed channel"
    /\ \A h \in Halves : closes[h] <= 1
    /\ \A t \in Threads : RanClose(t) => closedFlag[HalfOf(t)] /\ closes[HalfOf(t)] = 1
    /\ \A t \in Threads :
         Returned(t) /\ op[t].name \in IsClosedQueries /\ pre[t] => ret[t].val = "true"
    /\ m # Free => pc[m] \in {"cls", "set"}

\* Server, client and owner have each run Close on the download stream, and it
\* was closed once.
C2_Witness ==
    /\ kind = "get"
    /\ \A t \in Threads : RanClose(t)
    /\ closes[Messages] = 1


\* ------------------------------------------------------------------ C3

\* C3: on a download stream the consumer's Recv calls return the payloads the
\* producer passed to Send, in send order, each once and none lost (at most
\* the one still in its hand-off is outstanding); a Recv returns the
\* end-of-stream sentinel (nil, io.EOF) only once the channel is closed, and
\* always when it was closed before the call.
C3_DownloadInOrder ==
    kind = "get" =>
        LET s == sendLog[Messages]
            r == recvLog[Messages]
        IN  /\ Len(r) <= Len(s)
            /\ \A i \in 1..Len(r) : s[i] \in Payloads => r[i] = Result(s[i], Nil)
            /\ Len(r) < Len(s) => Len(s) = Len(r) + 1 /\ pc[Server] \in {"snd", "panic"}
            /\ Returned(Client) /\ op[Client].name = "Recv" =>
                   IF ret[Client].err = EOF
                     THEN chClosed[Messages] /\ ret[Client].val = Nil
                     ELSE Len(r) > 0 /\ ret[Client] = r[Len(r)]
            /\ Returned(Client) /\ op[Client].name = "Recv" /\ pre[Client] =>
                   ret[Client] = Result(Nil, EOF)
            /\ eofSeen[Messages] => chClosed[Messages]

\* Scenario A with two chunks: Send(a), Send(b), Close; the consumer has
\* received a, b and then io.EOF.
C3_Witness ==
    /\ kind = "get"
    /\ op[Server].name = "Send"
    /\ sendLog[Messages] = <<"a", "b">>
    /\ recvLog[Messages] = <<Result("a", Nil), Result("b", Nil)>>
    /\ Returned(Client) /\ op[Client].name = "Recv" /\ ret[Client] = Result(Nil, EOF)

\* ------------------------------------------------------------------ C4

\* The call of goroutine t is one that sends a message.
SendingCall(t) ==
    \/ op[t].name \in {"Send", "SendAndClose"}
    \/ op[t].name = "SendMsg" /\ t = Server

\* C4: a sending call (Send, SendAndClose, SendMsg of a payload or an error)
\* made when its half is already closed never reaches the hand-off, so it
\* delivers nothing and waits for no receiver, and it returns "stream is
\* closed".
C4_ClosedHalfRejectsSend ==
    \A t \in Threads :
        SendingCall(t) /\ op[t].arg \in Payloads \cup Errors /\ pre[t] =>
            /\ pc[t] \in {"chk", "idle"}
            /\ pc[t] = "idle" => ret[t] = Result(Nil, ErrClosed)

\* A sending call made on a closed half has returned "stream is closed".
C4_Witness ==
    \E t \in Threads :
        /\ SendingCall(t) /\ op[t].arg \in Payloads \cup Errors /\ pre[t]
        /\ Returned(t) /\ ret[t] = Result(Nil, ErrClosed)

\* ------------------------------------------------------------------ C5

\* C5: a typed send called with a nil payload (getObjectServer.Send,
\* putObjectClient.Send, putObjectServer.SendAndClose) returns the
\* invalid-argument error in that very step, so it never blocks and delivers
\* nothing, and the step leaves every closed flag, every channel and the
\* mutex as they were, whatever the state of the stream.
C5_NilPayloadRejected ==
    [][\A t \in Threads :
         ( /\ \/ getObjectServer_Send(t)
              \/ putObjectClient_Send(t)
              \/ putObjectServer_SendAndClose(t)
           /\ op'[t].arg = NilPtr )
         => /\ pc'[t] = "idle"
            /\ ret'[t] = Result(Nil, ErrNilArg)
            /\ UNCHANGED <<stream, logs>>]_vars

\* A typed send with a nil payload has returned the invalid-argument error on
\* a half that is closed.
C5_Witness ==
    \E t \in Threads :
        /\ op[t].name \in {"Send", "SendAndClose"} /\ op[t].arg = NilPtr
        /\ Returned(t) /\ ret[t] = Result(Nil, ErrNilArg)
        /\ closedFlag[HalfOf(t)]

\* ------------------------------------------------------------------ C6

\* A receive on half h has returned a carried error.
ErrorReturned(h) == \E i \in 1..Len(recvLog[h]) : recvLog[h][i].err # Nil

\* C6: once a Recv / CloseAndRecv has returned a carried error from a half,
\* every IsClosed query on that half made from then on answers true.
C6_ErrorThenClosed ==
    [][/\ ErrorReturned(Messages) /\ getObjectStream_IsStreamClosed(Owner)
          => ret'[Owner].val = "true"
       /\ ErrorReturned(Responses) /\ putObjectStream_IsServerClosed(Owner)
          => ret'[Owner].val = "true"]_vars

\* ------------------------------------------------------------------ C7

\* Goroutine t is blocked in a channel operation of its call.
Blocked(t) == pc[t] \in {"snd", "rcv"}

\* The other endpoint's half is closed: on a download stream the one half, on
\* an upload stream the response half for the client and the request half for
\* the server.
PeerHalfClosed(t) ==
    IF kind = "get" THEN streamClosed
    ELSE IF t = Client THEN serverClosed ELSE clientClosed

\* C7: no transfer hangs once a side has closed its half: an operation of the
\* other endpoint that is blocked in a hand-off or a receive eventually
\* returns (with a carried error, "stream is closed" or the end-of-stream
\* sentinel); in particular an upload client blocked in Send returns once the
\* server has closed the response half.
C7_NoHang ==
    \A t \in {Server, Client} :
        (Blocked(t) /\ PeerHalfClosed(t)) ~> (pc[t] = "idle")

\* ------------------------------------------------------------------ C8

\* C8: over the life of an upload stream at most one message, a result or an
\* error, is ever returned by CloseAndRecv from the response half.
C8_AtMostOneResponse == Len(recvLog[Responses]) <= 1

\* ------------------------------------------------------------------ C9

\* The call of goroutine t is the server's generic SendMsg with a value of the
\* payload type (possibly the nil pointer).
GenericPayloadCall(t) ==
    t = Server /\ op[t].name = "SendMsg" /\ op[t].arg \in Payloads \cup {NilPtr}

\* C9: on a download stream SendMsg with a payload behaves as Send with that
\* payload: a nil payload is rejected at once with the invalid-argument error
\* and nothing is sent, a call on a closed stream returns "stream is closed"
\* without reaching the hand-off, a successful call has delivered its payload,
\* and the call never closes the stream.
C9_SendMsgAsSend ==
    kind = "get" /\ GenericPayloadCall(Server) =>
        /\ op[Server].arg = NilPtr =>
              pc[Server] = "idle" /\ InvalidArgument(ret[Server].err)
        /\ pre[Server] =>
              /\ pc[Server] \in {"chk", "idle"}
              /\ pc[Server] = "idle" => ret[Server] = Result(Nil, ErrClosed)
        /\ Returned(Server) /\ ret[Server] = Ok =>
              /\ Len(recvLog[Messages]) = Len(sendLog[Messages])
              /\ recvLog[Messages][Len(recvLog[Messages])] = Result(op[Server].arg, Nil)
        /\ pc[Server] \notin {"lock", "cls", "set"}

\* ------------------------------------------------------------------ C10

\* C10: on an upload stream SendMsg with a final result behaves as SendAndClose
\* with that result: a nil result is rejected at once with the
\* invalid-argument error, a call on a closed response half returns "stream
\* is closed" without reaching the hand-off, and a successful call has
\* delivered its result and left the response half closed.
C10_SendMsgAsSendAndClose ==
    kind = "put" /\ GenericPayloadCall(Server) =>
        /\ op[Server].arg = NilPtr =>
              pc[Server] = "idle" /\ InvalidArgument(ret[Server].err)
        /\ pre[Server] =>
              /\ pc[Server] \in {"chk", "idle"}
              /\ pc[Server] = "idle" => ret[Server] = Result(Nil, ErrClosed)
        /\ Returned(Server) /\ ret[Server] = Ok =>
              /\ Len(recvLog[Responses]) = Len(sendLog[Responses])
              /\ recvLog[Responses][Len(recvLog[Responses])] = Result(op[Server].arg, Nil)
              /\ serverClosed

\* ------------------------------------------------------------------ C11

\* The last element of a non-empty sequence.
Last(q) == q[Len(q)]

\* C11: on a download stream a carried error is the last message the consumer
\* ever receives, and it is the error the producer passed to SendMsg, after
\* the payloads sent before it (scenario B: a, then E); every Recv that waits
\* after the error has been received returns the end-of-stream sentinel
\* (nil, io.EOF), never the error again, and it does return.
C11_ErrorThenEOF ==
    /\ [](kind = "get" =>
            LET s == sendLog[Messages]
                r == recvLog[Messages]
            IN  /\ \A i \in 1..Len(r) :
                     /\ s[i] \in Payloads => r[i] = Result(s[i], Nil)
                     /\ r[i].err # Nil =>
                            i = Len(r) /\ i = Len(s) /\ r[i] = Result(Nil, s[i])
                /\ ErrorReturned(Messages) => fault = "none")
    /\ [][kind = "get" /\ ErrorReturned(Messages)
            /\ pc[Client] = "rcv" /\ pc'[Client] = "idle"
          => ret'[Client] = Result(Nil, EOF)]_vars
    /\ (kind = "get" /\ ErrorReturned(Messages) /\ pc[Client] = "rcv")
          ~> (Returned(Client) /\ ret[Client] = Result(Nil, EOF))

\* Scenario B: the consumer has received a, then the error E, and its next
\* Recv has returned io.EOF.
C11_Witness ==
    /\ kind = "get"
    /\ sendLog[Messages] = <<"a", "E">>
    /\ recvLog[Messages] = <<Result("a", Nil), Result(Nil, "E")>>
    /\ Returned(Client) /\ op[Client].name = "Recv" /\ ret[Client] = Result(Nil, EOF)

\* ------------------------------------------------------------------ C12

\* The upload is over: CloseAndRecv has returned the response R given to
\* SendAndClose with no error, SendAndClose has returned nil, and both halves
\* are closed.
UploadDone ==
    /\ Returned(Client) /\ op[Client].name = "CloseAndRecv"
    /\ Returned(Server) /\ op[Server].name = "SendAndClose"
    /\ ret[Client] = Result(op[Server].arg, Nil)
    /\ ret[Server] = Ok
    /\ clientClosed /\ chClosed[Requests]
    /\ serverClosed /\ chClosed[Responses]

\* C12: in an upload where the client sends its requests and then calls
\* CloseAndRecv while the server calls Recv until end-of-stream and then
\* SendAndClose(R), under fair scheduling the server receives the requests in
\* the order sent and only then io.EOF, nothing faults, CloseAndRecv returns R
\* with no error, both calls terminate and both halves end closed.
C12_UploadSucceeds ==
    /\ []( /\ fault = "none"
           /\ Len(recvLog[Requests]) <= Len(sendLog[Requests])
           /\ \A i \in 1..Len(recvLog[Requests]) :
                 recvLog[Requests][i] = Result(sendLog[Requests][i], Nil)
           /\ eofSeen[Requests] => Len(recvLog[Requests]) = NumRequests
           /\ Returned(Server) /\ op[Server].name = "Recv"
                 => \/ ret[Server] = Result(Nil, EOF) /\ eofSeen[Requests]
                    \/ ret[Server] = Last(recvLog[Requests]) /\ ~eofSeen[Requests]
           /\ Returned(Client) /\ op[Client].name = "CloseAndRecv"
                 => /\ op[Server].name = "SendAndClose"
                    /\ ret[Client] = Result(op[Server].arg, Nil))
    /\ <>[]UploadDone

\* The upload of x, y has ended with the response R returned.
C12_Witness ==
    /\ UploadDone
    /\ Len(recvLog[Requests]) = NumRequests
    /\ eofSeen[Requests]
    /\ recvLog[Responses] = <<Result(op[Server].arg, Nil)>>

\* ------------------------------------------------------------------ C13

\* C13: on an upload stream on which no message was ever delivered on the
\* response half, a CloseAndRecv that has returned has returned the
\* end-of-stream sentinel (nil response, io.EOF), never a result or a carried
\* error, and it returned because the response half was closed.
C13_AbruptTerminationIsEOF ==
    kind = "put" /\ recvLog[Responses] = <<>>
      /\ Returned(Client) /\ op[Client].name = "CloseAndRecv"
    => /\ ret[Client] = Result(Nil, EOF)
       /\ chClosed[Responses]
       /\ eofSeen[Responses]

\* Scenario D: a request was sent and received, CloseServer closed the
\* response half with no message on it, and CloseAndRecv returned io.EOF.
C13_Witness ==
    /\ kind = "put"
    /\ Len(recvLog[Requests]) = 1
    /\ recvLog[Responses] = <<>> /\ sendLog[Responses] = <<>>
    /\ Returned(Owner) /\ op[Owner].name = "CloseServer"
    /\ Returned(Client) /\ op[Client].name = "CloseAndRecv"
    /\ ret[Client] = Result(Nil, EOF)

\* ------------------------------------------------------------------ C14

\* C14: a Recv / CloseAndRecv waiting on a half that is closed, whether the
\* half was closed while it waited or before it started, eventually returns
\* the end-of-stream sentinel (nil, io.EOF); it never waits for ever.
C14_CloseVisibleToReceivers ==
    \A t \in {Client, Server} :
        (pc[t] = "rcv" /\ chClosed[RecvChan(t)])
          ~> (Returned(t) /\ ret[t] = Result(Nil, EOF))

\* ------------------------------------------------------------------ C15

\* Goroutine t is at the send statement of a sending call on half h.
Sending(t, h) == pc[t] \in {"snd", "panic"} /\ SendingCall(t) /\ HalfOf(t) = h

\* The number of sends on half h that have completed.
CompletedSends(h) == Len(sendLog[h]) - Cardinality({t \in Threads : Sending(t, h)})

\* C15: the hand-off is synchronous and unbuffered: the sends completed on a
\* channel never outnumber the messages received from it, a sending call that
\* has returned success has had that very message taken by a receive, and a
\* sender leaves its send statement only together with a receiver that was
\* waiting on the channel and returns the sender's message (or by the
\* closed-channel fault); with no receiver waiting it stays where it is.
C15_SynchronousHandOff ==
    /\ [](\A h \in HalvesOf :
            /\ CompletedSends(h) <= Len(recvLog[h])
            /\ \A t \in Threads :
                  Returned(t) /\ SendingCall(t) /\ HalfOf(t) = h /\ ret[t] = Ok
                  => /\ Len(recvLog[h]) = Len(sendLog[h])
                     /\ Last(recvLog[h]) = RecvResult(MsgOf(op[t]), TRUE))
    /\ [][\A t \in Threads :
            pc[t] = "snd" /\ pc'[t] # "snd"
            => \/ pc'[t] = "panic"
               \/ \E r \in Threads \ {t} :
                     /\ Receiving(r, HalfOf(t))
                     /\ pc'[r] = "idle"
                     /\ ret'[r] = RecvResult(MsgOf(op[t]), TRUE)]_vars

\* On an upload stream the client's Send(x) has returned success after the
\* server's Recv took x, and the server is now blocked in the hand-off of
\* SendAndClose with no receiver waiting.
C15_Witness ==
    /\ kind = "put"
    /\ Returned(Client) /\ op[Client].name = "Send" /\ ret[Client] = Ok
    /\ recvLog[Requests] = <<Result(op[Client].arg, Nil)>>
    /\ pc[Server] = "snd" /\ op[Server].name = "SendAndClose"
    /\ recvLog[Responses] = <<>>

\* ------------------------------------------------------------------ C16

\* The client's CloseAndRecv is waiting for the response, or has returned.
AwaitingResponse ==
    /\ kind = "put" /\ op[Client].name = "CloseAndRecv"
    /\ pc[Client] \in {"rcv", "idle"}

\* C16: CloseAndRecv closes the request half before it waits on the response
\* half: from the moment it waits (and after it has returned) the client
\* closed flag is set and the requests channel is closed exactly once, also
\* when the half was already closed before the call, which then neither
\* faults nor closes again; a server Recv that returns from then on returns
\* io.EOF, and a server Recv waiting then does return, response or no
\* response.
C16_HalfCloseBeforeWait ==
    /\ [](AwaitingResponse =>
            /\ clientClosed /\ chClosed[Requests] /\ closes[Requests] = 1
            /\ fault # "close of closed channel")
    /\ [][AwaitingResponse /\ At(Server, "Recv", "rcv") /\ pc'[Server] = "idle"
          => ret'[Server] = Result(Nil, EOF)]_vars
    /\ (AwaitingResponse /\ At(Server, "Recv", "rcv"))
          ~> (Returned(Server) /\ ret[Server] = Result(Nil, EOF))

\* CloseAndRecv was called with the request half already closed, is waiting
\* for a response that has not been produced, and the server's Recv has
\* returned io.EOF.
C16_Witness ==
    /\ kind = "put"
    /\ At(Client, "CloseAndRecv", "rcv") /\ pre[Client]
    /\ sendLog[Responses] = <<>>
    /\ Returned(Server) /\ op[Server].name = "Recv" /\ ret[Server] = Result(Nil, EOF)

\* ------------------------------------------------------------------ C17

\* C17: when the upload client's CloseSend has returned nil the request half
\* is closed (flag and channel), and a half once closed stays closed (C18);
\* a server Recv called with the request half closed finds the channel closed,
\* so it has nothing to wait for, and returns io.EOF; a client Send of a
\* non-nil request called with the half closed never reaches the hand-off and
\* returns "stream is closed".
C17_CloseSendClosesRequests ==
    kind = "put" =>
      /\ Returned(Client) /\ op[Client].name = "CloseSend" /\ ret[Client] = Ok
           => clientClosed /\ chClosed[Requests] /\ closes[Requests] = 1
      /\ op[Server].name = "Recv" /\ pre[Server]
           => /\ chClosed[Requests]
              /\ Returned(Server) => ret[Server] = Result(Nil, EOF)
      /\ op[Client].name = "Send" /\ op[Client].arg \in Payloads /\ pre[Client]
           => /\ pc[Client] \in {"chk", "idle"}
              /\ Returned(Client) => ret[Client] = Result(Nil, ErrClosed)

\* Only CloseSend has closed the request half (no stream-level close was
\* called and no response was sent, so no CloseAndRecv has returned); the
\* server's Recv called afterwards returned io.EOF and the client's Send
\* called afterwards returned "stream is closed".
C17_Witness ==
    /\ kind = "put"
    /\ op[Owner].name = "none" /\ sendLog[Responses] = <<>>
    /\ closes[Requests] = 1
    /\ Returned(Server) /\ op[Server].name = "Recv" /\ pre[Server]
    /\ ret[Server] = Result(Nil, EOF)
    /\ Returned(Client) /\ op[Client].name = "Send" /\ op[Client].arg \in Payloads
    /\ pre[Client] /\ ret[Client] = Result(Nil, ErrClosed)

\* ------------------------------------------------------------------ C18

\* C18: each half goes from OPEN to CLOSED and stays there: no step of any
\* operation clears a closed flag that is set or reopens a closed channel,
\* and the stream keeps the channels it was made with.
C18_ClosedIsTerminal ==
    [][/\ \A h \in Halves :
             /\ closedFlag[h] => closedFlag'[h]
             /\ chClosed[h] => chClosed'[h]
             /\ closes'[h] >= closes[h]
       /\ kind' = kind]_vars

\* Both halves of an upload stream are closed, and close calls and queries
\* made after that have returned.
C18_Witness ==
    /\ kind = "put"
    /\ \A h \in {Requests, Responses} : closedFlag[h] /\ chClosed[h]
    /\ Returned(Owner) /\ op[Owner].name = "CloseClient" /\ pre[Owner]
    /\ Returned(Client) /\ op[Client].name = "CloseSend" /\ pre[Client]
    /\ Returned(Server) /\ op[Server].name = "SendAndClose" /\ pre[Server]

\* ------------------------------------------------------------------ C19

\* The upload server's SendMsg was called with an error value.
ServerSendsError == kind = "put" /\ op[Server].name = "SendMsg" /\ op[Server].arg \in Errors

\* C19: on an upload stream an error received from the response half is the
\* last message sent and received on it and is exactly the error given to
\* SendMsg, with a nil response; a CloseAndRecv that has returned once an
\* error was received returned that error (or io.EOF, when it was called
\* later); a SendMsg(error) past its hand-off has delivered its error, when
\* it has returned nil the response half is closed (flag and channel), and a
\* result or error send called on the closed half stops at the closed check
\* and returns "stream is closed".
C19_UploadErrorIsTerminal ==
    kind = "put" =>
      LET s == sendLog[Responses]
          r == recvLog[Responses]
      IN  /\ \A i \in 1..Len(r) :
               r[i].err # Nil => i = Len(r) /\ i = Len(s) /\ r[i] = Result(Nil, s[i])
          /\ ErrorReturned(Responses) /\ Returned(Client) /\ op[Client].name = "CloseAndRecv"
               => ret[Client] \in {Last(r), Result(Nil, EOF)}
          /\ ServerSendsError /\ pc[Server] \in {"lock", "cls", "set"}
               => Len(r) = Len(s) /\ Last(r) = Result(Nil, op[Server].arg)
          /\ ServerSendsError /\ Returned(Server) /\ ret[Server] = Ok
               => /\ Len(r) = Len(s) /\ Last(r) = Result(Nil, op[Server].arg)
                  /\ serverClosed /\ chClosed[Responses] /\ closes[Responses] = 1
          /\ \A t \in Threads :
               SendingCall(t) /\ HalfOf(t) = Responses /\ pre[t]
                 /\ op[t].arg \in Payloads \cup Errors
               => /\ pc[t] \in {"chk", "idle"}
                  /\ Returned(t) => ret[t] = Result(Nil, ErrClosed)

\* The client's CloseAndRecv has returned the error E with a nil response, E
\* is the only message of the response half, which SendMsg alone closed, and
\* the server's SendAndClose called afterwards returned "stream is closed".
C19_Witness ==
    /\ kind = "put"
    /\ op[Owner].name = "none"
    /\ sendLog[Responses] = <<"E">>
    /\ recvLog[Responses] = <<Result(Nil, "E")>>
    /\ serverClosed /\ closes[Responses] = 1
    /\ Returned(Client) /\ op[Client].name = "CloseAndRecv"
    /\ ret[Client] = Result(Nil, "E")
    /\ Returned(Server) /\ op[Server].name = "SendAndClose" /\ pre[Server]
    /\ ret[Server] = Result(Nil, ErrClosed)

\* ------------------------------------------------------------------ C20

\* C20: a download SendMsg with an error never faults, whatever close races
\* in during the call; when it found the stream open and has returned, it
\* returned nil with its error delivered as the last message and the stream
\* closed; when the stream was closed before the call it stops at the closed
\* check, delivers nothing and returns "stream is closed".
C20_SendErrorRaceFree ==
    kind = "get" /\ op[Server].name = "SendMsg" /\ op[Server].arg \in Errors
    => /\ pc[Server] # "panic" /\ fault = "none"
       /\ Returned(Server) /\ ret[Server] = Ok
            => /\ streamClosed /\ chClosed[Messages]
               /\ Len(recvLog[Messages]) = Len(sendLog[Messages])
               /\ Last(recvLog[Messages]) = Result(Nil, op[Server].arg)
       /\ Returned(Server) => ret[Server] \in {Ok, Result(Nil, ErrClosed)}
       /\ pre[Server]
            => /\ pc[Server] \in {"chk", "idle"}
               /\ Returned(Server) => ret[Server] = Result(Nil, ErrClosed)


\* ------------------------------------------------------------------ C21

\* C21: on a download stream a CloseSend returns nil only when it is the call
\* that closed the stream: a CloseSend that returns nil returns from the step
\* that sets the flag after its own close(s.messages), never from a
\* closeStream that found the stream already closed by a racing close; a
\* CloseSend called on a closed stream returns "stream is closed".
C21_OnlyTheClosingCallSucceeds ==
    [][kind = "get" /\ op[Client].name = "CloseSend" /\ getObjectClient_CloseSend(Client)
         /\ pc'[Client] = "idle"
       => IF ret'[Client] = Ok
            THEN pc[Client] = "set" /\ ~pre[Client]
            ELSE ret'[Client] = Result(Nil, ErrClosed) /\ closedFlag[Messages]]_vars


\* ------------------------------------------------------------------ C22

\* C22: putObjectClient.CloseSend returns a nil error in every stream state,
\* also when the request half was already closed by an earlier CloseSend or
\* CloseAndRecv.
C22_CloseSendAlwaysNil ==
    kind = "put" /\ Returned(Client) /\ op[Client].name = "CloseSend"
    => ret[Client] = Ok


\* ------------------------------------------------------------------ C23

\* C23: the two halves of an upload stream are independent: no step of an
\* operation that closes the request half (client CloseSend, CloseAndRecv,
\* CloseClient) changes the closed flag or the channel of the response half,
\* and no step of an operation that closes the response half (SendAndClose,
\* SendMsg, CloseServer) changes the closed flag or the channel of the request
\* half.
C23_HalvesIndependent ==
    [][kind = "put" =>
         /\ ( \/ putObjectClient_CloseSend(Client)
              \/ putObjectClient_CloseAndRecv(Client)
              \/ putObjectStream_CloseClient(Owner) )
            => /\ closedFlag'[Responses] = closedFlag[Responses]
               /\ chClosed'[Responses] = chClosed[Responses]
         /\ ( \/ putObjectServer_SendAndClose(Server)
              \/ putObjectServer_SendMsg(Server)
              \/ putObjectStream_CloseServer(Owner) )
            => /\ closedFlag'[Requests] = closedFlag[Requests]
               /\ chClosed'[Requests] = chClosed[Requests]]_vars

\* The client's CloseSend has closed the request half while the server is in
\* the hand-off of SendAndClose on the response half, which is still open.
C23_Witness ==
    /\ kind = "put"
    /\ Returned(Client) /\ op[Client].name = "CloseSend" /\ ret[Client] = Ok
    /\ clientClosed /\ chClosed[Requests]
    /\ ~serverClosed /\ ~chClosed[Responses]
    /\ At(Server, "SendAndClose", "snd")


\* ------------------------------------------------------------------ C24

\* C24: every message a receiver has obtained from a stream carries exactly
\* one of a non-nil payload and a non-nil error, never both and never neither.
C24_PayloadXorError ==
    \A h \in HalvesOf : \A i \in 1..Len(recvLog[h]) :
        (recvLog[h][i].val # Nil) # (recvLog[h][i].err # Nil)


\* ------------------------------------------------------------------ C25

\* C25: whenever the guard mutex is free, each closed flag agrees with its
\* channel: streamClosed iff the messages channel is closed, clientClosed iff
\* the requests channel is closed, serverClosed iff the responses channel is
\* closed.
C25_FlagAgreesWithChannel ==
    m = Free => \A h \in Halves : closedFlag[h] <=> chClosed[h]

\* CloseClient has closed the open request half and released the mutex; the
\* response half is open.
C25_Witness ==
    /\ kind = "put" /\ m = Free
    /\ Returned(Owner) /\ op[Owner].name = "CloseClient" /\ ~pre[Owner]
    /\ clientClosed /\ chClosed[Requests]
    /\ ~serverClosed /\ ~chClosed[Responses]


\* ------------------------------------------------------------------ C26

\* Goroutine t is inside a guard operation: the closed check of a facade call
\* or the body of Close / CloseClient / CloseServer.
InGuard(t) == pc[t] \in {"chk", "lock", "cls", "set"}

\* C26: the guard mutex is never held across a channel hand-off: its holder
\* is always between the lock and the unlock of Close / CloseClient /
\* CloseServer, never at a send or a receive, so a blocked sender or receiver
\* never holds it; and the guard operations are deadlock-free: while the
\* program runs, a goroutine inside a guard operation can take its next step,
\* or else the mutex holder can, whatever senders and receivers are blocked.
C26_GuardNeverWaitsForHandOff ==
    /\ m # Free => pc[m] \in {"cls", "set"}
    /\ \A t \in Threads : Blocked(t) => m # t
    /\ \A t \in Threads :
         InGuard(t) /\ Running
         => \/ ENABLED Proceed(t)
            \/ m \in Threads \ {t} /\ ENABLED Proceed(m)

\* Both endpoints of an upload stream are blocked in a send with no receiver
\* while the owner is inside CloseClient, holding the mutex.
C26_Witness ==
    /\ kind = "put"
    /\ At(Client, "Send", "snd")
    /\ At(Server, "SendAndClose", "snd")
    /\ At(Owner, "CloseClient", "set") /\ m = Owner


\* ------------------------------------------------------------------ C28

\* A typed send (Send, SendAndClose) of goroutine t.
TypedSend(t) == op[t].name \in {"Send", "SendAndClose"}

\* C28: in the typed sends the argument check precedes the closed check: a
\* Send(nil) or SendAndClose(nil) made on an already closed half has returned
\* at once, with the invalid-argument error and not with "stream is closed".
C28_NilCheckBeforeClosedCheck ==
    \A t \in Threads :
        TypedSend(t) /\ op[t].arg = NilPtr /\ pre[t]
        => /\ Returned(t)
           /\ ret[t] = Result(Nil, ErrNilArg)
           /\ ret[t] # Result(Nil, ErrClosed)

\* On an upload stream with both halves closed, the client's Send(nil) and
\* the server's SendAndClose(nil) have both returned the invalid-argument
\* error.
C28_Witness ==
    /\ kind = "put"
    /\ clientClosed /\ serverClosed
    /\ \A t \in {Client, Server} :
         /\ TypedSend(t) /\ op[t].arg = NilPtr /\ pre[t]
         /\ Returned(t) /\ ret[t] = Result(Nil, ErrNilArg)


\* ------------------------------------------------------------------ C27

\* A request with no error: what a Recv returns for a request sent by Send.
IsRequest(r) == r.val \in Payloads /\ r.err = Nil

\* C27: on the request half of an upload stream no carried error is ever
\* delivered: only non-nil requests are sent on it, whatever the client calls
\* (Send, the SendMsg stub, CloseSend, CloseAndRecv), every message received
\* from it is a non-nil request with a nil error, and every Recv that has
\* returned has returned such a request or (nil, io.EOF).
C27_NoErrorOnRequests ==
    kind = "put" =>
      /\ \A i \in 1..Len(sendLog[Requests]) : sendLog[Requests][i] \in Payloads
      /\ \A i \in 1..Len(recvLog[Requests]) : IsRequest(recvLog[Requests][i])
      /\ Returned(Server) /\ op[Server].name = "Recv"
           => IsRequest(ret[Server]) \/ ret[Server] = Result(Nil, EOF)

\* The server's Recv has returned the request sent by Send, the client's
\* SendMsg with an error value has returned nil, and the server's next Recv
\* is waiting: the error was not sent.
C27_Witness ==
    /\ kind = "put"
    /\ Returned(Client) /\ op[Client] = [name |-> "SendMsg", arg |-> "E"] /\ ret[Client] = Ok
    /\ recvLog[Requests] = <<Result("a", Nil)>>
    /\ At(Server, "Recv", "rcv")
    /\ ~chClosed[Requests]


\* ------------------------------------------------------------------ C29

\* C29: the interface stubs (Header, Trailer, Context, SetHeader, SendHeader,
\* SetTrailer, RecvMsg, the client SendMsg) never block: an endpoint that is
\* between calls can call one in every state of the running program, with
\* the stream open or closed and with the mutex free or held; a stub returns
\* in the step that calls it, with no error, and leaves the closed flags, the
\* channels, the mutex and everything sent or received unchanged.
C29_StubsAreInert ==
    /\ [](\A t \in {Client, Server} :
            pc[t] = "idle" /\ Running /\ calls > 0 => ENABLED Stubs(t))
    /\ [][\A t \in Threads :
            Stubs(t) => /\ pc'[t] = "idle"
                        /\ ret'[t].err = Nil
                        /\ UNCHANGED <<stream, logs>>]_vars

\* On a closed download stream, with the owner inside a second Close, the
\* client's Header and the server's SetHeader have returned with no error.
C29_Witness ==
    /\ kind = "get" /\ streamClosed /\ chClosed[Messages]
    /\ pc[Owner] = "lock" /\ pre[Owner]
    /\ Returned(Client) /\ op[Client].name = "Header" /\ pre[Client]
    /\ ret[Client] = Result(EmptyMD, Nil)
    /\ Returned(Server) /\ op[Server].name = "SetHeader" /\ pre[Server]
    /\ ret[Server] = Ok

====
